---- MODULE Spec2Model ----
(***************************************************************************)
(* Model of src/codes_cpp/main.cpp: the strain-step / avalanche driver of  *)
(* a spring network simulated by LAMMPS ("the Solver").                    *)
(*                                                                         *)
(* Numbers.  Atom coordinates and the box width are integers (grid units). *)
(* A breaking length read from the threshold file is kept exactly, as the  *)
(* decimal m / 10^e (record [m, e]); sqrt(dist_sq) > break_len is decided   *)
(* exactly on these values.                                                *)
(* A text line is a sequence of one-character strings.                     *)
(*                                                                         *)
(* Spec is a whole run of main.  ParseSpec is the load of line 82 on files *)
(* of arbitrary short lines; EvalSpec is one pass of lines 225-254 on a    *)
(* wider choice of snapshots, box widths and bond lists.                   *)
(***************************************************************************)
EXTENDS Integers, Sequences, FiniteSets, TLC

\* ------------------------------------------------------------------ bounds
MaxSteps == 2     \* largest total_steps tried
MaxBonds == 2     \* largest number of bonds of the network
MaxAtoms == 2     \* largest nlocal of an atom snapshot
MaxLineLen == 4   \* longest threshold-file line tried on the loader alone

\* ------------------------------------------------- program constants
NumSetupCmds == 13   \* lammps_command calls before the strain loop

\* ------------------------------------------------------- small helpers
RECURSIVE Pow10(_)
Pow10(e) == IF e = 0 THEN 1 ELSE 10 * Pow10(e - 1)

RECURSIVE SumSeq(_)
SumSeq(s) == IF s = <<>> THEN 0 ELSE Head(s) + SumSeq(Tail(s))

\* ------------------------------------------- sscanf(line, "%d %lf", ...)
Digits == {"0", "1", "2", "3", "4", "5", "6", "7", "8", "9"}

DigitVal(c) ==
    CASE c = "0" -> 0 [] c = "1" -> 1 [] c = "2" -> 2 [] c = "3" -> 3
      [] c = "4" -> 4 [] c = "5" -> 5 [] c = "6" -> 6 [] c = "7" -> 7
      [] c = "8" -> 8 [] c = "9" -> 9

IsSpace(c) == c \in {" ", "\t"}

\* index of the first character at or after i that is not white space
RECURSIVE SkipSpace(_, _)
SkipSpace(s, i) ==
    IF i <= Len(s) /\ IsSpace(s[i]) THEN SkipSpace(s, i + 1) ELSE i

\* the run of decimal digits starting at i: [val, n, next]
RECURSIVE ScanDigits(_, _, _, _)
ScanDigits(s, i, val, n) ==
    IF i <= Len(s) /\ s[i] \in Digits
    THEN ScanDigits(s, i + 1, 10 * val + DigitVal(s[i]), n + 1)
    ELSE [val |-> val, n |-> n, next |-> i]

\* an optional sign at i: [neg, next]
ScanSign(s, i) ==
    IF i <= Len(s) /\ s[i] \in {"+", "-"}
    THEN [neg |-> s[i] = "-", next |-> i + 1]
    ELSE [neg |-> FALSE, next |-> i]

\* the %d conversion: white space, optional sign, one or more digits
ScanInt(s, i) ==
    LET sg == ScanSign(s, SkipSpace(s, i))
        d  == ScanDigits(s, sg.next, 0, 0)
    IN  [ok |-> d.n > 0,
         val |-> IF sg.neg THEN -d.val ELSE d.val,
         next |-> d.next]

\* the %lf conversion on decimal text: white space, optional sign, digits,
\* optional point and digits, at least one digit in all; value m / 10^e
ScanFloat(s, i) ==
    LET sg   == ScanSign(s, SkipSpace(s, i))
        ip   == ScanDigits(s, sg.next, 0, 0)
        dot  == ip.next <= Len(s) /\ s[ip.next] = "."
        fp   == IF dot THEN ScanDigits(s, ip.next + 1, ip.val, 0)
                       ELSE [val |-> ip.val, n |-> 0, next |-> ip.next]
    IN  [ok |-> ip.n + fp.n > 0,
         m  |-> IF sg.neg THEN -fp.val ELSE fp.val,
         e  |-> fp.n,
         next |-> fp.next]

\* sscanf(line, "%d %lf", &bond_type, &break_len): the number of conversions
\* made, with the values converted
Sscanf(line) ==
    LET a == ScanInt(line, 1)
        b == ScanFloat(line, SkipSpace(line, a.next))
    IN  IF ~a.ok THEN [n |-> 0, bond_type |-> 0, break_len |-> [m |-> 0, e |-> 0]]
        ELSE IF ~b.ok
             THEN [n |-> 1, bond_type |-> a.val, break_len |-> [m |-> 0, e |-> 0]]
             ELSE [n |-> 2, bond_type |-> a.val,
                   break_len |-> [m |-> b.m, e |-> b.e]]

\* ------------------------------------------------------ parse_thresholds
NoFile == "unopenable"

\* one pass of the getline loop: the table after the line
ParseLine(thresholds, line) ==
    IF line = <<>> \/ line[1] = "#" THEN thresholds
    ELSE LET r == Sscanf(line)
         IN  IF r.n = 2
             THEN [t \in DOMAIN thresholds \cup {r.bond_type} |->
                      IF t = r.bond_type THEN r.break_len ELSE thresholds[t]]
             ELSE thresholds

RECURSIVE ParseLines(_, _)
ParseLines(thresholds, lines) ==
    IF lines = <<>> THEN thresholds
    ELSE ParseLines(ParseLine(thresholds, Head(lines)), Tail(lines))

EmptyTable == [t \in {} |-> [m |-> 0, e |-> 0]]

\* mutant: an empty table is returned instead of thrown
parse_thresholds_no_empty_check(file) ==
    IF file = NoFile THEN [ok |-> FALSE, table |-> EmptyTable]
    ELSE [ok |-> TRUE, table |-> ParseLines(EmptyTable, file)]

\* parse_thresholds: ok = FALSE stands for the std::runtime_error thrown
parse_thresholds(file) ==
    IF file = NoFile THEN [ok |-> FALSE, table |-> EmptyTable]
    ELSE LET t == ParseLines(EmptyTable, file)
         IN  IF DOMAIN t = {} THEN [ok |-> FALSE, table |-> EmptyTable]
             ELSE [ok |-> TRUE, table |-> t]

\* --------------------------------------------------- bond evaluation pass
\* line 229: if (current_type <= 1) continue;
\* mutant: only the unbreakable type is skipped
SkipsType_only_one(current_type) == current_type = 1

\* mutant: only the broken type is skipped
SkipsType_only_zero(current_type) == current_type <= 0

SkipsType(current_type) == current_type <= 1

\* mutant: thresholds[current_type], which yields 0.0 for a missing key
ThresholdFor_default(thresholds, current_type) ==
    IF current_type \in DOMAIN thresholds
    THEN [found |-> TRUE, break_len |-> thresholds[current_type]]
    ELSE [found |-> TRUE, break_len |-> [m |-> 0, e |-> 0]]

\* lines 232-234: thresholds.find(current_type), then thresholds.at(current_type)
ThresholdFor(thresholds, current_type) ==
    IF current_type \in DOMAIN thresholds
    THEN [found |-> TRUE, break_len |-> thresholds[current_type]]
    ELSE [found |-> FALSE, break_len |-> [m |-> 0, e |-> 0]]

\* lines 215-218: tag_to_local_idx[tag[i]] = i for i = 0..nlocal-1 (the last
\* write for a tag wins); indices are the code's, from 0
BuildTagMap(tag) ==
    [t \in {tag[i] : i \in DOMAIN tag} |->
        CHOOSE k \in 0..(Len(tag) - 1) :
            /\ tag[k + 1] = t
            /\ \A j \in 0..(Len(tag) - 1) : tag[j + 1] = t => j <= k]

\* lines 239-240: std::map::operator[] returns the mapped index, and for a
\* tag that is not a key inserts it with the value 0 and returns that
MapIndex(map, atom_tag) ==
    IF atom_tag \in DOMAIN map
    THEN [idx |-> map[atom_tag], map |-> map]
    ELSE [idx |-> 0,
          map |-> [t \in DOMAIN map \cup {atom_tag} |->
                      IF t = atom_tag THEN 0 ELSE map[t]]]

\* mutant: (int)(dx / x_period), which truncates toward zero
Round_trunc(dx, x_period) ==
    IF dx >= 0 THEN dx \div x_period ELSE -((-dx) \div x_period)

\* round(dx / x_period) for integer dx and x_period > 0: to nearest, halves
\* away from zero
Round(dx, x_period) ==
    IF dx >= 0 THEN (2 * dx + x_period) \div (2 * x_period)
    ELSE -((2 * (-dx) + x_period) \div (2 * x_period))

\* line 246: dx - x_period * round(dx / x_period)
MinImage(dx, x_period) == dx - x_period * Round(dx, x_period)

\* mutant: sqrt(dist_sq) >= break_len
Exceeds_ge(dist_sq, break_len) ==
    \/ break_len.m <= 0
    \/ dist_sq * Pow10(break_len.e) * Pow10(break_len.e) >= break_len.m * break_len.m

\* line 250: sqrt(dist_sq) > break_len, break_len = m / 10^e
Exceeds(dist_sq, break_len) ==
    \/ break_len.m < 0
    \/ dist_sq * Pow10(break_len.e) * Pow10(break_len.e) > break_len.m * break_len.m

\* mutant: the write is left for later and the array keeps the type
WriteBroken_deferred(bond_type, i) == bond_type

\* mutant: the bond is given the unbreakable type
WriteBroken_unbreakable(bond_type, i) == [bond_type EXCEPT ![i] = 1]

\* line 251: bond_type[i] = 0;
WriteBroken(bond_type, i) == [bond_type EXCEPT ![i] = 0]

\* mutant: the two skips at lines 229 and 232 leave the loop (break) instead
\* of going on to the next bond (continue)
RECURSIVE EvalBonds_break(_, _, _, _, _, _, _)
EvalBonds_break(i, nbonds, bond_atom, x, x_period, thresholds, acc) ==
    IF i > nbonds THEN acc
    ELSE
      LET current_type == acc.bond_type[i]
          th == ThresholdFor(thresholds, current_type)
      IN  IF SkipsType(current_type) THEN acc
          ELSE IF ~th.found THEN acc
          ELSE
            LET l1 == MapIndex(acc.map, bond_atom[i][1])
                l2 == MapIndex(l1.map, bond_atom[i][2])
                dx0 == x[l1.idx + 1][1] - x[l2.idx + 1][1]
                dy  == x[l1.idx + 1][2] - x[l2.idx + 1][2]
                dx  == MinImage(dx0, x_period)
                dist_sq == dx * dx + dy * dy
                seen == [acc EXCEPT !.map = l2.map]
            IN  IF Exceeds(dist_sq, th.break_len)
                THEN EvalBonds_break(i + 1, nbonds, bond_atom, x, x_period,
                        thresholds,
                        [seen EXCEPT !.bond_type = WriteBroken(@, i),
                                     !.broken = @ + 1,
                                     !.marked = @ \cup {i}])
                ELSE EvalBonds_break(i + 1, nbonds, bond_atom, x, x_period,
                                     thresholds, seen)

\* lines 225-254: the loop over the bonds from bond i on (i from 1 here).
\* acc = [bond_type, map, broken, marked]: the bond types as written so far,
\* tag_to_local_idx, broken_this_iter, and the indices written
RECURSIVE EvalBonds(_, _, _, _, _, _, _)
EvalBonds(i, nbonds, bond_atom, x, x_period, thresholds, acc) ==
    IF i > nbonds THEN acc
    ELSE
      LET current_type == acc.bond_type[i]
          th == ThresholdFor(thresholds, current_type)
          skip == EvalBonds(i + 1, nbonds, bond_atom, x, x_period, thresholds, acc)
      IN  IF SkipsType(current_type) THEN skip
          ELSE IF ~th.found THEN skip
          ELSE
            LET l1 == MapIndex(acc.map, bond_atom[i][1])
                l2 == MapIndex(l1.map, bond_atom[i][2])
                dx0 == x[l1.idx + 1][1] - x[l2.idx + 1][1]
                dy  == x[l1.idx + 1][2] - x[l2.idx + 1][2]
                dx  == MinImage(dx0, x_period)
                dist_sq == dx * dx + dy * dy
                seen == [acc EXCEPT !.map = l2.map]
            IN  IF Exceeds(dist_sq, th.break_len)
                THEN EvalBonds(i + 1, nbonds, bond_atom, x, x_period, thresholds,
                        [seen EXCEPT !.bond_type = WriteBroken(@, i),
                                     !.broken = @ + 1,
                                     !.marked = @ \cup {i}])
                ELSE EvalBonds(i + 1, nbonds, bond_atom, x, x_period, thresholds,
                               seen)

\* lines 215-254: one pass over the whole bond list with a tag map built
\* from the tag array
PassResult(types, ends, tag, x, x_period, thresholds) ==
    EvalBonds(1, Len(types), ends, x, x_period, thresholds,
              [bond_type |-> types,
               map |-> BuildTagMap(tag),
               broken |-> 0,
               marked |-> {}])

\* a bond the pass measures: type above 1 with an entry in the table
Tracked(thresholds, t) == ~SkipsType(t) /\ ThresholdFor(thresholds, t).found

\* the pointer the Solver returned as null is dereferenced by the code:
\* nbond at line 212, tag at line 217 (nlocal >= 1), bond_type at line 226
\* when there is a bond, bond_atom and x at lines 236-243 for the first
\* bond that passes the two skips
DerefsNull(unavail, types, thresholds) ==
    \/ unavail \in {"nbond", "tag"}
    \/ unavail = "bond_type" /\ Len(types) > 0
    \/ /\ unavail \in {"bond_atom", "x"}
       /\ \E i \in DOMAIN types : Tracked(thresholds, types[i])

\* ------------------------------------------------------------ input sets
Tags == {1, 2, 3}
BondTypes == {0, 1, 2, 3}
Pos == {<<0, 0>>, <<0, 2>>, <<3, 0>>}
Periods == {4}
StrainIncs == {1}
Unavail == {"none", "x", "bond_type", "bond_atom", "tag", "nbond"}

\* threshold files: only a comment and a blank line; the table {2: 1.5,
\* 3: 2.0}; the table {0: 1, 1: 1, 2: 1} followed by a line that is no record
FileComments == << <<"#", " ", "t">>, <<>> >>
FileTwoTypes == << <<"#">>, <<"2", " ", "1", ".", "5">>,
                   <<"3", " ", "2", ".", "0">> >>
FileReserved == << <<"0", " ", "1">>, <<"1", " ", "1">>, <<"2", " ", "1">>,
                   <<"x">> >>
Files == {NoFile, FileComments, FileTwoTypes, FileReserved}

\* bond i joins the atoms tagged i and i+1 (cyclically over the tags)
BondEnds(i) == << ((i - 1) % Cardinality(Tags)) + 1, (i % Cardinality(Tags)) + 1 >>

\* the one-to-one sequences of length n over S
Distinct(n, S) ==
    {u \in [1..n -> S] : \A i, j \in 1..n : i # j => u[i] # u[j]}

\* what the Solver can hand out after a relaxation: nlocal atoms with
\* distinct tags, at distinct places of Pos
Snapshots ==
    UNION { { [tag |-> t, x |-> p] : t \in Distinct(n, Tags),
                                     p \in Distinct(n, Pos) } :
            n \in 1..MaxAtoms }

\* the snapshots tried together with a pointer that is null
OneAtomSnapshots == {s \in Snapshots : Len(s.tag) = 1 /\ s.x[1] = <<0, 0>>}

\* ------------------------------------------------------------------ state
VARIABLES
    pc,               \* position of main
    exit_code,        \* -1 while running; the value returned by main
    argc,             \* argument count
    file,             \* the threshold resource: NoFile or its lines
    total_steps,      \* argv[3]
    strain_inc,       \* argv[4]
    thresholds,       \* the table returned by parse_thresholds
    lmp,              \* the Solver handle: "none", "open", "closed"
    fix2,             \* Solver: fix 2 (setforce 0 on top_atoms) is defined
    bond_type,        \* Solver: bond_type[i]
    bond_atom,        \* Solver: bond_atom[i]
    x_period,         \* Solver: boxhi[0] - boxlo[0]
    setup_idx,        \* next setup command, 1..NumSetupCmds
    step_id,          \* strain loop counter
    broken_this_iter, \* line 200
    num_broken_total, \* line 179
    unavail,          \* which pointer the last extraction returned as null
    tag,              \* tag[] as extracted in the last pass
    x,                \* x[] as extracted in the last pass
    marked,           \* bond indices written in the last pass
    solver_used,      \* history: some Solver function has been called
    cmd_error,        \* history: a per-step command returned an error
    n_displace,       \* history: displace_atoms commands issued
    n_relax,          \* history: minimize commands issued in this step
    n_break_iters,    \* history: iterations of this step that broke a bond
    n_writes,         \* history: bond_type writes of this step
    per_step,         \* history: broken bond count of each finished step
    tracked_at_entry  \* history: bonds of a tracked type when this step began

vars == << pc, exit_code, argc, file, total_steps, strain_inc, thresholds, lmp,
           fix2, bond_type, bond_atom, x_period, setup_idx, step_id,
           broken_this_iter, num_broken_total, unavail, tag, x, marked,
           solver_used, cmd_error, n_displace, n_relax, n_break_iters,
           n_writes, per_step, tracked_at_entry >>

inputs == << argc, file, total_steps, strain_inc, bond_atom, x_period >>
solver == << lmp, fix2, bond_type >>
pass == << unavail, tag, x, marked, broken_this_iter >>
history == << solver_used, cmd_error, n_displace, n_relax, n_break_iters,
              n_writes, per_step, tracked_at_entry >>

Init ==
    /\ pc = "args"
    /\ exit_code = -1
    /\ argc \in {2, 5}
    /\ file \in Files
    /\ total_steps \in {0, MaxSteps}
    /\ strain_inc \in StrainIncs
    /\ thresholds = EmptyTable
    /\ lmp = "none"
    /\ fix2 = FALSE
    /\ \E nb \in 0..MaxBonds :
          /\ bond_type \in [1..nb -> BondTypes]
          /\ bond_atom = [i \in 1..nb |-> BondEnds(i)]
    /\ x_period \in Periods
    /\ setup_idx = 1
    /\ step_id = 0
    /\ broken_this_iter = 0
    /\ num_broken_total = 0
    /\ unavail = "none"
    /\ tag = <<>>
    /\ x = <<>>
    /\ marked = {}
    /\ solver_used = FALSE
    /\ cmd_error = FALSE
    /\ n_displace = 0
    /\ n_relax = 0
    /\ n_break_iters = 0
    /\ n_writes = 0
    /\ per_step = <<>>
    /\ tracked_at_entry = 0

\* ---------------------------------------------------------------- set-up
\* lines 72-79
CheckArgs ==
    /\ pc = "args"
    /\ IF argc < 3
       THEN pc' = "exit" /\ exit_code' = 1
       ELSE pc' = "load" /\ UNCHANGED exit_code
    /\ UNCHANGED << inputs, thresholds, solver, setup_idx, step_id,
                    num_broken_total, pass, history >>

\* line 82: a throw of parse_thresholds is caught nowhere
LoadThresholds ==
    /\ pc = "load"
    /\ LET r == parse_thresholds(file)
       IN  IF r.ok
           THEN pc' = "open" /\ thresholds' = r.table
           ELSE pc' = "terminated" /\ UNCHANGED thresholds
    /\ UNCHANGED << exit_code, inputs, solver, setup_idx, step_id,
                    num_broken_total, pass, history >>

\* lines 86-90: lammps_open_no_mpi; a null handle is thrown as runtime_error
OpenSolver ==
    /\ pc = "open"
    /\ \E opened \in BOOLEAN :
          IF opened
          THEN pc' = "setup" /\ lmp' = "open"
          ELSE pc' = "terminated" /\ UNCHANGED lmp
    /\ solver_used' = TRUE
    /\ UNCHANGED << tracked_at_entry, exit_code, inputs, thresholds, fix2, bond_type,
                    setup_idx, step_id, num_broken_total, pass, cmd_error,
                    n_displace, n_relax, n_break_iters, n_writes, per_step >>

\* lines 99-176: each set-up command is checked; an error closes the Solver
\* and returns 1
SetupCommand ==
    /\ pc = "setup"
    /\ \E error_msg \in {"null", "error"} :
          IF error_msg # "null"
          THEN /\ lmp' = "closed"
               /\ pc' = "exit"
               /\ exit_code' = 1
               /\ UNCHANGED setup_idx
          ELSE /\ pc' = IF setup_idx = NumSetupCmds THEN "loop" ELSE "setup"
               /\ setup_idx' = setup_idx + 1
               /\ UNCHANGED << tracked_at_entry, lmp, exit_code >>
    /\ UNCHANGED << inputs, thresholds, fix2, bond_type, step_id,
                    num_broken_total, pass, history >>

\* ----------------------------------------------------------- strain loop
\* line 180: step_id < total_steps
EnterStep ==
    /\ pc = "loop"
    /\ step_id < total_steps
    /\ pc' = "displace"
    /\ n_relax' = 0
    /\ n_break_iters' = 0
    /\ n_writes' = 0
    /\ tracked_at_entry' =
          Cardinality({i \in DOMAIN bond_type : Tracked(thresholds, bond_type[i])})
    /\ UNCHANGED << exit_code, inputs, thresholds, solver, setup_idx, step_id,
                    num_broken_total, pass, solver_used, cmd_error, n_displace,
                    per_step >>

\* lines 185-186: displace_atoms top_atoms move 0 <strain_inc> 0.  Here and
\* below the value lammps_command returns is dropped; a command that
\* reports an error has not been carried out
Displace ==
    /\ pc = "displace"
    /\ \E error_msg \in {"null", "error"} :
          cmd_error' = (cmd_error \/ error_msg # "null")
    /\ n_displace' = n_displace + 1
    /\ pc' = "pin"
    /\ UNCHANGED << tracked_at_entry, exit_code, inputs, thresholds, lmp, fix2, bond_type,
                    setup_idx, step_id, num_broken_total, pass, solver_used,
                    n_relax, n_break_iters, n_writes, per_step >>

\* line 189: fix 2 top_atoms setforce 0.0 0.0 0.0
Pin ==
    /\ pc = "pin"
    /\ \E error_msg \in {"null", "error"} :
          /\ fix2' = IF error_msg = "null" THEN TRUE ELSE fix2
          /\ cmd_error' = (cmd_error \/ error_msg # "null")
    /\ pc' = "min_style"
    /\ UNCHANGED << tracked_at_entry, exit_code, inputs, thresholds, lmp, bond_type,
                    setup_idx, step_id, num_broken_total, pass, solver_used,
                    n_displace, n_relax, n_break_iters, n_writes, per_step >>

\* line 194: min_style cg
MinStyle ==
    /\ pc = "min_style"
    /\ \E error_msg \in {"null", "error"} :
          cmd_error' = (cmd_error \/ error_msg # "null")
    /\ pc' = "minimize"
    /\ UNCHANGED << tracked_at_entry, exit_code, inputs, thresholds, solver,
                    setup_idx, step_id,
                    num_broken_total, pass, solver_used, n_displace, n_relax,
                    n_break_iters, n_writes, per_step >>

\* line 195: minimize 1.0e-5 1.0e-7 1000 10000
Minimize ==
    /\ pc = "minimize"
    /\ \E error_msg \in {"null", "error"} :
          cmd_error' = (cmd_error \/ error_msg # "null")
    /\ n_relax' = n_relax + 1
    /\ pc' = "extract"
    /\ UNCHANGED << tracked_at_entry, exit_code, inputs, thresholds, solver,
                    setup_idx, step_id,
                    num_broken_total, pass, solver_used, n_displace,
                    n_break_iters, n_writes, per_step >>

\* lines 200-254: the pointers are extracted and used unchecked.  A null
\* pointer that is dereferenced ends the process (SIGSEGV) before any bond
\* is written; one that is never dereferenced goes unnoticed
ExtractAndEvaluate ==
    /\ pc = "extract"
    /\ \E un \in Unavail :
       \E snap \in IF un = "none" THEN Snapshots ELSE OneAtomSnapshots :
          /\ unavail' = un
          /\ tag' = IF un = "tag" THEN <<>> ELSE snap.tag
          /\ x' = IF un = "x" THEN <<>> ELSE snap.x
          /\ IF DerefsNull(un, bond_type, thresholds)
             THEN /\ pc' = "crashed"
                  /\ broken_this_iter' = 0
                  /\ marked' = {}
                  /\ UNCHANGED bond_type
             ELSE LET r == PassResult(bond_type, bond_atom, tag', x', x_period,
                                      thresholds)
                  IN  /\ pc' = "accumulate"
                      /\ bond_type' = r.bond_type
                      /\ broken_this_iter' = r.broken
                      /\ marked' = r.marked
    /\ n_writes' = n_writes + Cardinality(marked')
    /\ UNCHANGED << tracked_at_entry, exit_code, inputs, thresholds, lmp, fix2, setup_idx,
                    step_id, num_broken_total, solver_used, cmd_error,
                    n_displace, n_relax, n_break_iters, per_step >>

\* mutant: num_broken_total = broken_this_iter
AddBroken_assign(total, broken) == broken

\* mutant: an iteration that broke bonds adds one
AddBroken_once(total, broken) == total + (IF broken > 0 THEN 1 ELSE 0)

\* line 259: num_broken_total += broken_this_iter
AddBroken(total, broken) == total + broken

\* mutant: the loop ends when at most one bond broke
AvalancheDone_at_most_one(broken) == broken <= 1

\* mutant: the loop ends when fewer than no bond broke
AvalancheDone_negative(broken) == broken < 0

\* line 262: if (broken_this_iter == 0) break;
AvalancheDone(broken) == broken = 0

\* lines 259-264.  The pointers of the pass go out of scope
Accumulate ==
    /\ pc = "accumulate"
    /\ num_broken_total' = AddBroken(num_broken_total, broken_this_iter)
    /\ pc' = IF AvalancheDone(broken_this_iter) THEN "unfix" ELSE "min_style"
    /\ n_break_iters' = n_break_iters + (IF broken_this_iter > 0 THEN 1 ELSE 0)
    /\ unavail' = "none"
    /\ tag' = <<>>
    /\ x' = <<>>
    /\ UNCHANGED << tracked_at_entry, exit_code, inputs, thresholds, solver,
                    setup_idx, step_id,
                    marked, broken_this_iter, solver_used, cmd_error,
                    n_displace, n_relax, n_writes,
                    per_step >>

\* line 268: unfix 2, then the loop's ++step_id
Unfix ==
    /\ pc = "unfix"
    /\ \E error_msg \in {"null", "error"} :
          /\ fix2' = IF error_msg = "null" THEN FALSE ELSE fix2
          /\ cmd_error' = (cmd_error \/ error_msg # "null")
    /\ step_id' = step_id + 1
    /\ per_step' = Append(per_step, n_writes)
    /\ pc' = "loop"
    /\ UNCHANGED << tracked_at_entry, exit_code, inputs, thresholds, lmp, bond_type,
                    setup_idx, num_broken_total, pass, solver_used, n_displace,
                    n_relax, n_break_iters, n_writes >>

\* lines 278-281
Finish ==
    /\ pc = "loop"
    /\ ~(step_id < total_steps)
    /\ lmp' = "closed"
    /\ pc' = "exit"
    /\ exit_code' = 0
    /\ UNCHANGED << inputs, thresholds, fix2, bond_type, setup_idx,
                    step_id, num_broken_total, pass, history >>

Next ==
    \/ CheckArgs
    \/ LoadThresholds
    \/ OpenSolver
    \/ SetupCommand
    \/ EnterStep
    \/ Displace
    \/ Pin
    \/ MinStyle
    \/ Minimize
    \/ ExtractAndEvaluate
    \/ Accumulate
    \/ Unfix
    \/ Finish

Spec == Init /\ [][Next]_vars

\* ------------------------------------------- the loader on its own lines
\* characters a line of the threshold file is made of
LineChars == {"2", " ", ".", "#", "x", "-"}

Lines == UNION { [1..n -> LineChars] : n \in 0..MaxLineLen }

\* a record under a key that no line over LineChars can produce
FirstRecord == << "7", " ", "1" >>

\* a run that starts at the load of line 82 with a file of one line, or of
\* FirstRecord and one line
ParseInit ==
    /\ pc = "load"
    /\ exit_code = -1
    /\ argc = 5
    /\ file \in { << l >> : l \in Lines } \cup { << FirstRecord, l >> : l \in Lines }
    /\ total_steps = 0
    /\ strain_inc \in StrainIncs
    /\ thresholds = EmptyTable
    /\ lmp = "none"
    /\ fix2 = FALSE
    /\ bond_type = << >>
    /\ bond_atom = << >>
    /\ x_period \in Periods
    /\ setup_idx = 1
    /\ step_id = 0
    /\ broken_this_iter = 0
    /\ num_broken_total = 0
    /\ unavail = "none"
    /\ tag = <<>>
    /\ x = <<>>
    /\ marked = {}
    /\ solver_used = FALSE
    /\ cmd_error = FALSE
    /\ n_displace = 0
    /\ n_relax = 0
    /\ n_break_iters = 0
    /\ n_writes = 0
    /\ per_step = <<>>
    /\ tracked_at_entry = 0

ParseNext == LoadThresholds

ParseSpec == ParseInit /\ [][ParseNext]_vars

\* ------------------------------------- one evaluation pass on its own data
EvalTypes == {1, 2, 3}
EvalEnds == {<<1, 2>>, <<2, 3>>}
EvalPos == {<<1, 0>>, <<2, 0>>, <<4, 0>>, <<4, 3>>}
EvalPeriods == {4, 5}
EvalFiles == {FileTwoTypes, FileReserved}

\* snapshots of nlocal atoms, tags in increasing order, anywhere on EvalPos
EvalSnapshots ==
    UNION { { [tag |-> t, x |-> p] :
                t \in {u \in Distinct(n, Tags) :
                          \A i, j \in 1..n : i < j => u[i] < u[j]},
                p \in [1..n -> EvalPos] } :
            n \in 1..MaxAtoms }

\* the state at line 225 of the first iteration of step 1: the table
\* loaded, the Solver set up and relaxed once, the pointers extracted
EvalInit ==
    /\ pc = "evaluate"
    /\ exit_code = -1
    /\ argc = 5
    /\ file \in EvalFiles
    /\ total_steps = 1
    /\ strain_inc \in StrainIncs
    /\ thresholds = parse_thresholds(file).table
    /\ lmp = "open"
    /\ fix2 = TRUE
    /\ \E nb \in 0..MaxBonds :
          /\ bond_type \in [1..nb -> EvalTypes]
          /\ bond_atom \in [1..nb -> EvalEnds]
    /\ x_period \in EvalPeriods
    /\ setup_idx = NumSetupCmds + 1
    /\ step_id = 0
    /\ broken_this_iter = 0
    /\ num_broken_total = 0
    /\ unavail = "none"
    /\ \E snap \in EvalSnapshots : tag = snap.tag /\ x = snap.x
    /\ marked = {}
    /\ solver_used = TRUE
    /\ cmd_error = FALSE
    /\ n_displace = 1
    /\ n_relax = 1
    /\ n_break_iters = 0
    /\ n_writes = 0
    /\ per_step = <<>>
    /\ tracked_at_entry = 0

\* lines 225-254 on the pointers already extracted
EvaluatePass ==
    /\ pc = "evaluate"
    /\ LET r == PassResult(bond_type, bond_atom, tag, x, x_period, thresholds)
       IN  /\ pc' = "accumulate"
           /\ bond_type' = r.bond_type
           /\ broken_this_iter' = r.broken
           /\ marked' = r.marked
    /\ n_writes' = n_writes + Cardinality(marked')
    /\ UNCHANGED << exit_code, inputs, thresholds, lmp, fix2, setup_idx,
                    step_id, num_broken_total, unavail, tag, x, solver_used,
                    cmd_error, n_displace, n_relax, n_break_iters, per_step,
                    tracked_at_entry >>

EvalNext == EvaluatePass

EvalSpec == EvalInit /\ [][EvalNext]_vars

\* ================================================================ claims
Stopped == pc \in {"exit", "terminated", "crashed"}

\* the pass whose results the state holds read every pointer it was given
PassDone == pc = "accumulate" /\ unavail = "none"

TagsRead == {tag[k] : k \in DOMAIN tag}

\* both endpoint tags of bond i are tags of the snapshot of the last pass
Resolved(i) == bond_atom[i][1] \in TagsRead /\ bond_atom[i][2] \in TagsRead

PosOf(t) == x[CHOOSE k \in DOMAIN tag : tag[k] = t]

\* squared minimum-image distance of a bond with resolved endpoints
DistSq(i) ==
    LET a == PosOf(bond_atom[i][1])
        b == PosOf(bond_atom[i][2])
        dx == MinImage(a[1] - b[1], x_period)
        dy == a[2] - b[2]
    IN  dx * dx + dy * dy

\* C1: a bond of type 0 keeps type 0 in every step of the run, an
\* evaluation pass never selects it, and every bond the pass counts in
\* broken_this_iter had a type other than 0 before the pass.
C1_BrokenIsTerminal ==
    [][ /\ \A i \in DOMAIN bond_type :
              bond_type[i] = 0 => bond_type'[i] = 0
        /\ pc = "extract" =>
              /\ \A i \in marked' : bond_type[i] # 0
              /\ broken_this_iter' =
                    Cardinality({i \in DOMAIN bond_type :
                                    bond_type[i] # 0 /\ bond_type'[i] = 0})
      ]_vars

\* C1 witness: the only bond was broken in the first strain step; a pass of
\* the second step finds it longer than every threshold and leaves it alone.
C1_Witness ==
    /\ PassDone
    /\ step_id = 1
    /\ Len(bond_type) = 1
    /\ bond_type[1] = 0
    /\ num_broken_total = 1
    /\ Resolved(1)
    /\ DistSq(1) >= 4
    /\ marked = {}
    /\ broken_this_iter = 0

\* C2: once the table is loaded, no step of the run changes the type of a
\* bond whose type has no entry in the table, whatever the snapshot is.
C2_ThresholdGating ==
    [][ pc \notin {"args", "load"} =>
          \A i \in DOMAIN bond_type :
              bond_type[i] \notin DOMAIN thresholds =>
                  bond_type'[i] = bond_type[i] ]_vars

\* C2 witness: a pass has measured a resolved bond of type 3, which the
\* loaded table {0, 1, 2} does not hold, at a distance above every threshold
\* of the table, and has not written it.
C2_Witness ==
    /\ PassDone
    /\ DOMAIN thresholds = {0, 1, 2}
    /\ \E i \in DOMAIN bond_type :
          /\ bond_type[i] = 3
          /\ Resolved(i)
          /\ DistSq(i) >= 4

\* C3 (as claimed): every bond a pass writes has both endpoint tags among
\* the tags of the snapshot the pass read.
C3_UnresolvedSkipped ==
    PassDone => \A i \in marked : Resolved(i)

\* C4: no step of the run changes the type of a bond of type 1, also under
\* a table with an entry for key 1.
C4_Unbreakable ==
    [][ \A i \in DOMAIN bond_type :
            bond_type[i] = 1 => bond_type'[i] = 1 ]_vars

\* C4 witness: the table has an entry for key 1 (length 1), and a pass has
\* left a resolved bond of type 1 of length 2 as it was.
C4_Witness ==
    /\ PassDone
    /\ 1 \in DOMAIN thresholds
    /\ \E i \in DOMAIN bond_type :
          /\ bond_type[i] = 1
          /\ Resolved(i)
          /\ Exceeds(DistSq(i), thresholds[1])

\* C5: the avalanche loop is left (for unfix 2) only after a pass that
\* marked no bond, and it goes on after every pass that marked one; so on
\* leaving it the step has issued one relaxation more than it had
\* iterations that broke a bond, and one relaxation and no write when its
\* first pass marked none.  A relaxation is a minimize command issued; a
\* bond exceeds its threshold when the pass finds it so.
C5_AvalancheFixedPoint ==
    /\ pc = "unfix" =>
          /\ broken_this_iter = 0
          /\ marked = {}
          /\ n_relax = n_break_iters + 1
          /\ n_writes >= n_break_iters
          /\ (n_break_iters = 0 => n_relax = 1 /\ n_writes = 0)
    /\ pc \in {"min_style", "minimize"} =>
          /\ n_relax = n_break_iters
          /\ (n_relax > 0 => broken_this_iter > 0)
    /\ pc \in {"extract", "accumulate"} => n_relax >= 1

\* C5 witness: a step ends after two iterations that broke one bond each
\* and a third that broke none: three relaxations.
C5_Witness ==
    pc = "unfix" /\ n_break_iters = 2 /\ n_writes = 2 /\ n_relax = 3

\* C6: num_broken_total never decreases, and between strain steps (and at
\* the end of the run) it is the sum of the numbers of bonds written in
\* the finished steps.
C6_CumulativeCount ==
    /\ [](pc \in {"loop", "exit"} => num_broken_total = SumSeq(per_step))
    /\ [][num_broken_total' >= num_broken_total]_vars

\* C6 witness: two finished steps that broke one bond each.
C6_Witness ==
    pc = "exit" /\ exit_code = 0 /\ per_step = <<1, 1>> /\ num_broken_total = 2

\* C7 (as claimed): every relaxation is started with fix 2 in force, every
\* displacement with fix 2 not in force, and a run that returns 0 has issued
\* exactly total_steps displacements.
C7_StrainProtocol ==
    /\ pc \in {"min_style", "minimize"} => fix2
    /\ pc = "displace" => ~fix2
    /\ (pc = "exit" /\ exit_code = 0) => n_displace = total_steps

\* C8 (as claimed): once a per-step command has reported an error the run
\* has stopped.
C8_CommandErrorFatal ==
    cmd_error => Stopped

\* C9 (as claimed): once an extraction has returned a null pointer the run
\* has stopped.
C9_DataUnavailableFatal ==
    unavail # "none" => Stopped

\* a line that is a record: not empty, not a comment, and two conversions
ValidRecord(line) == line # <<>> /\ line[1] # "#" /\ Sscanf(line).n = 2

\* the threshold resource cannot be opened or holds no valid record
ConfigErrorCase ==
    file = NoFile \/ \A k \in DOMAIN file : ~ValidRecord(file[k])

\* C10: with a threshold resource that cannot be opened or that holds no
\* valid record, the run never gets past the load and no Solver function is
\* ever called.
C10_ConfigErrorStopsRun ==
    ConfigErrorCase =>
        /\ ~solver_used
        /\ lmp = "none"
        /\ pc \in {"args", "load", "terminated", "exit"}
        /\ pc = "exit" => argc < 3

\* C10 witness: the load of the file of a comment and a blank line has
\* thrown.
C10_Witness ==
    pc = "terminated" /\ file = FileComments /\ ~solver_used

\* C11 (as claimed): a run that has ended has returned 0 or 1 from main,
\* 1 after too few arguments, a threshold file that fails to load, a Solver
\* that fails to open or a set-up command that fails, and 0 exactly when
\* all strain steps were completed.
C11_ExitStatus ==
    Stopped =>
        /\ pc = "exit"
        /\ exit_code \in {0, 1}
        /\ exit_code = 0 <=> (lmp = "closed" /\ step_id = total_steps
                                /\ setup_idx = NumSetupCmds + 1)
        /\ (argc < 3 \/ ConfigErrorCase) => exit_code = 1

\* the words of a line: its maximal runs of characters that are not white
\* space
RECURSIVE Tokens(_, _, _)
Tokens(s, cur, out) ==
    IF s = <<>> THEN (IF cur = <<>> THEN out ELSE Append(out, cur))
    ELSE IF IsSpace(Head(s))
         THEN Tokens(Tail(s), <<>>, IF cur = <<>> THEN out ELSE Append(out, cur))
         ELSE Tokens(Tail(s), Append(cur, Head(s)), out)

Unsigned(tok) ==
    IF tok # <<>> /\ tok[1] \in {"+", "-"} THEN Tail(tok) ELSE tok

\* the whole word is an integer
IsIntText(tok) ==
    LET u == Unsigned(tok)
    IN  u # <<>> /\ \A k \in DOMAIN u : u[k] \in Digits

\* the whole word is a decimal number
IsFloatText(tok) ==
    LET u == Unsigned(tok)
    IN  /\ \E k \in DOMAIN u : u[k] \in Digits
        /\ \A k \in DOMAIN u : u[k] \in Digits \cup {"."}
        /\ Cardinality({ k \in DOMAIN u : u[k] = "." }) <= 1

\* a line that consists of exactly an integer and a number, white space
\* between them
ExactPair(line) ==
    LET w == Tokens(line, <<>>, <<>>)
    IN  /\ line # <<>> /\ line[1] # "#"
        /\ Len(w) = 2 /\ IsIntText(w[1]) /\ IsFloatText(w[2])

\* C12 (as claimed): the load adds an entry for a line exactly when the line
\* is not empty, does not start with '#' and consists of exactly an integer
\* and a number separated by white space; any other line, a pair followed by
\* more text included, leaves the table as it was.
C12_RecordAcceptance ==
    (pc = "open" /\ Len(file) = 2 /\ file[1] = FirstRecord) =>
        (DOMAIN thresholds # {7} <=> ExactPair(file[2]))

Abs(n) == IF n < 0 THEN -n ELSE n

\* bond i has a type above 1 that is a key of the table
TrackedBond(i) == bond_type[i] >= 2 /\ bond_type[i] \in DOMAIN thresholds

\* dist_sq is above the square of the length m / 10^e (m >= 0)
LongerThan(dist_sq, len) ==
    dist_sq * Pow10(len.e) * Pow10(len.e) > len.m * len.m

\* C13: for a measured bond with both endpoints in the snapshot, the x
\* separation dx - L * round(dx / L) is at most L/2 in magnitude and differs
\* from the raw dx by a whole multiple of L, the y separation is the raw
\* difference, and the pass writes the bond exactly when the distance made
\* of these two is above the break length.
C13_PeriodicSeparation ==
    [][ pc = "evaluate" =>
          \A i \in DOMAIN bond_type :
             (TrackedBond(i) /\ Resolved(i)) =>
                LET a == PosOf(bond_atom[i][1])
                    b == PosOf(bond_atom[i][2])
                    dx0 == a[1] - b[1]
                    dy == a[2] - b[2]
                    d == MinImage(dx0, x_period)
                IN  /\ 2 * Abs(d) <= x_period
                    /\ \E k \in -2..2 : d = dx0 - k * x_period
                    /\ i \in marked' <=>
                          LongerThan(d * d + dy * dy, thresholds[bond_type[i]])
      ]_vars

\* a bond of break length 2.0 between atoms at x = 1 and x = L - 1 of a box
\* of width 5, on one height: the raw separation 3 is above 2.0, the
\* periodic one is 2 and the bond is kept
C13_Witness ==
    /\ pc = "accumulate" /\ x_period = 5
    /\ \E i \in DOMAIN bond_type :
          /\ bond_type[i] = 3 /\ 3 \in DOMAIN thresholds /\ Resolved(i)
          /\ {PosOf(bond_atom[i][1]), PosOf(bond_atom[i][2])}
                = {<<1, 0>>, <<4, 0>>}
          /\ i \notin marked

\* the bond list in the order p: place j holds bond p[j]
Reordered(f, p) == [j \in DOMAIN f |-> f[p[j]]]

\* the pass run on bond i alone writes it
BreaksAlone(i) ==
    PassResult(<< bond_type[i] >>, << bond_atom[i] >>, tag, x, x_period,
               thresholds).marked # {}

\* C14: for a fixed snapshot, box width and table, the bonds a pass sets to
\* 0 and its count are those of deciding every bond on the unmodified list
\* and writing afterwards, and they are the same whatever the order of the
\* bond list.
C14_OrderIndependence ==
    [][ pc = "evaluate" =>
          LET B == DOMAIN bond_type
              alone == {i \in B : BreaksAlone(i)}
          IN  /\ marked' = alone
              /\ bond_type' = [i \in B |-> IF i \in alone THEN 0 ELSE bond_type[i]]
              /\ broken_this_iter' = Cardinality(alone)
              /\ \A p \in Permutations(B) :
                    LET r == PassResult(Reordered(bond_type, p),
                                        Reordered(bond_atom, p), tag, x,
                                        x_period, thresholds)
                    IN  /\ {p[j] : j \in r.marked} = alone
                        /\ r.broken = broken_this_iter'
      ]_vars

\* a pass that wrote its first bond, one with an endpoint tag missing from
\* the snapshot, and measured and kept its second
C14_Witness ==
    /\ pc = "accumulate" /\ Len(bond_type) >= 2
    /\ ~Resolved(1) /\ 1 \in marked
    /\ TrackedBond(2) /\ 2 \notin marked

\* C15: when a relaxation is about to be commanded, and when the pointers
\* are about to be extracted, nothing extracted earlier is held (no tag
\* array, no positions) and every bond the last pass marked has type 0 in
\* the Solver; the pass of an iteration follows the minimize command of the
\* same iteration, one pass for one relaxation.
C15_TurnTaking ==
    /\ pc \in {"min_style", "minimize", "extract"} =>
          /\ tag = <<>> /\ x = <<>>
          /\ \A i \in marked : bond_type[i] = 0
    /\ pc \in {"min_style", "minimize"} => n_relax = n_break_iters
    /\ pc \in {"extract", "accumulate"} => n_relax = n_break_iters + 1

\* the relaxation of a second iteration is about to start after a pass
\* that wrote a bond
C15_Witness ==
    pc = "minimize" /\ n_relax >= 1 /\ marked # {}

\* C16: a pass sets a bond of tracked type t with both endpoints in the
\* snapshot to 0 when its minimum-image distance is strictly above
\* breakLength[t], and leaves it as it is, unmarked, when the distance is
\* equal to the break length or below it.
C16_StrictComparison ==
    [][ pc = "evaluate" =>
          \A i \in DOMAIN bond_type :
             (TrackedBond(i) /\ Resolved(i)) =>
                IF LongerThan(DistSq(i), thresholds[bond_type[i]])
                THEN bond_type'[i] = 0 /\ i \in marked'
                ELSE bond_type'[i] = bond_type[i] /\ i \notin marked'
      ]_vars

\* a bond of type 3, break length 2.0, whose endpoints are exactly 2 apart
\* was measured and kept
C16_Witness ==
    /\ pc = "accumulate"
    /\ \E i \in DOMAIN bond_type :
          /\ bond_type[i] = 3 /\ 3 \in DOMAIN thresholds /\ Resolved(i)
          /\ thresholds[3] = [m |-> 20, e |-> 1]
          /\ DistSq(i) = 4
          /\ i \notin marked

\* inside the while loop of lines 192-265
InAvalanche == pc \in {"min_style", "minimize", "extract", "accumulate"}

\* what the loop has left to do at most: four statements for each
\* relaxation still allowed, and the statements left in this iteration
Variant ==
    4 * (tracked_at_entry + 1 - n_relax)
      + (CASE pc = "extract" -> 3 [] pc = "accumulate" -> 2
           [] pc = "min_style" -> 1 [] OTHER -> 0)

\* C17: inside the avalanche loop of a step that began with B bonds of a
\* tracked type, at most B + 1 minimize commands have been issued and every
\* iteration that broke a bond has left one tracked bond fewer; the loop
\* ends because every statement of it that stays inside lowers a count that
\* is never negative.
C17_AvalancheTerminates ==
    /\ [](InAvalanche =>
             /\ n_relax <= tracked_at_entry + 1
             /\ Cardinality({i \in DOMAIN bond_type : TrackedBond(i)})
                   + n_break_iters <= tracked_at_entry
             /\ Variant >= 0)
    /\ [][ (InAvalanche /\ InAvalanche') => Variant' < Variant ]_vars

\* the loop of a step that began with two tracked bonds is left after its
\* third relaxation
C17_Witness ==
    pc = "unfix" /\ tracked_at_entry = 2 /\ n_relax = 3

\* num_broken_total with the count of the pass just made added to it
Counted ==
    num_broken_total + (IF pc = "accumulate" THEN broken_this_iter ELSE 0)

TrackedNow == {i \in DOMAIN bond_type : TrackedBond(i)}

\* C18: once the table is loaded, every step of the run raises
\* num_broken_total (with the count of the current pass added) by the number
\* of bonds that this step took from a tracked type to 0, and the total and
\* the number of bonds that still have a tracked type add up to the same
\* sum throughout, so that the total, 0 at the start, never exceeds the
\* number of bonds of a tracked type at the start.
C18_CountsTypeChanges ==
    /\ [](pc \in {"args", "load", "open", "setup"} => Counted = 0)
    /\ [][ pc \notin {"args", "load"} =>
             /\ Counted' - Counted =
                   Cardinality({i \in TrackedNow : bond_type'[i] = 0})
             /\ Counted' + Cardinality(TrackedNow')
                   = Counted + Cardinality(TrackedNow) ]_vars

\* one pass broke two bonds and both are in the total
C18_Witness ==
    pc = "min_style" /\ num_broken_total = 2 /\ n_break_iters = 1

\* C19: in every step of the run the bond list keeps its length and its
\* endpoints; a bond type changes only in an evaluation pass, only to 0 and
\* only for a bond of tracked type; the threshold table changes only at the
\* load; the tag and position arrays change only where pointers are
\* extracted or go out of scope, never in between.
C19_OnlyWriteIsTypeZero ==
    [][ /\ DOMAIN bond_type' = DOMAIN bond_type
        /\ \A i \in DOMAIN bond_type :
              bond_type'[i] # bond_type[i] =>
                 /\ pc = "extract"
                 /\ bond_type'[i] = 0
                 /\ TrackedBond(i)
        /\ bond_atom' = bond_atom
        /\ pc # "load" => thresholds' = thresholds
        /\ pc \notin {"extract", "accumulate"} => (tag' = tag /\ x' = x)
      ]_vars

\* a pass wrote one bond and left another bond, of a type other than 0, as
\* it was
C19_Witness ==
    /\ pc = "accumulate" /\ marked # {}
    /\ \E i \in DOMAIN bond_type : i \notin marked /\ bond_type[i] # 0
====
